---------------------------- MODULE Spec2Model ----------------------------
(***************************************************************************)
(* Mumma Tiffin (src/index.js): the Express handlers over the SQLite       *)
(* tables users, admins, menu, notifications, orders and addresses.       *)
(*                                                                         *)
(* JavaScript values are encoded as follows.  An object (a request body,   *)
(* an address, a row) is a TLA+ record; a key whose value is undefined is  *)
(* a key that is not in the record's DOMAIN.  Strings are strings; the one *)
(* non-string scalar the inputs use is the number 123, written Num123, and *)
(* TypeOf tells it apart.  Arrays are sequences.                           *)
(*                                                                         *)
(* node runs one handler at a time and switches handlers only at an        *)
(* await.  A handler that awaits the store once is one action.  A handler  *)
(* that writes and awaits the store more than once is one action per       *)
(* store statement, with its position and locals kept in calls[s].         *)
(***************************************************************************)
EXTENDS Integers, Sequences, FiniteSets, TLC

VARIABLES
    users,          \* table users: row id = index (AUTOINCREMENT)
    admins,         \* table admins: row id = index
    menu,           \* table menu: function from the id (PRIMARY KEY) to the row
    notifications,  \* table notifications: row id = index
    orders,         \* table orders: row id = index
    addresses,      \* table addresses: row id = index
    now,            \* the wall clock read by new Date()
    calls,          \* the handlers suspended at an await, by request slot
    res             \* the response most recently sent, with its request

vars == <<users, admins, menu, notifications, orders, addresses, now, calls, res>>

(***************************** bounds ***************************************)
MaxCalls == 2       \* requests in flight at once
MaxOrders == 2      \* rows of orders the handlers may add
MaxNotifs == 3      \* rows of notifications the handlers may add
MaxTime == 1        \* ticks of the clock
MaxAddresses == 1   \* rows of addresses the handlers may add

Slots == 1..MaxCalls

(************************** JavaScript values *******************************)
Num123 == "num:123"
TypeOf(v) == IF v = Num123 THEN "number" ELSE "string"

Has(obj, k) == k \in DOMAIN obj
\* !obj.k  for a key holding a string, a number other than 0, an array or an object
Missing(obj, k) == ~Has(obj, k) \/ obj[k] = ""
\* obj.k || dflt
OrElse(obj, k, dflt) == IF Missing(obj, k) THEN dflt ELSE obj[k]

NoData == [none |-> "none"]
Idle == [op |-> "idle"]

(***************************** auth helpers *********************************)
JWT_SECRET == "mummatiffin_dev_secret_change_me"

signToken(payload) == [payload |-> payload, sig |-> JWT_SECRET]
jwtVerifies(token) == token.sig = JWT_SECRET

\* bcryptjs: hash and compare reject ("Illegal arguments") unless given strings
IllegalArguments == "Error: Illegal arguments"
bcryptThrows(password) == TypeOf(password) # "string"
bcryptHash(password) == <<"bcrypt", password>>
bcryptCompare(password, hash) == hash = <<"bcrypt", password>>

\* req.headers.authorization: absent, one word, or "Bearer <token>"
NoAuth == [parts |-> 0]
OneWord == [parts |-> 1]
Bearer(token) == [parts |-> 2, token |-> token]
ForgedToken(payload) == [payload |-> payload, sig |-> "other secret"]

NoUser == [role |-> "none"]

AuthCheck_AnyRole(h, role) ==
    IF h.parts = 0 THEN [status |-> 401, error |-> "missing authorization", user |-> NoUser]
    ELSE IF h.parts # 2 THEN [status |-> 401, error |-> "invalid authorization", user |-> NoUser]
    ELSE IF ~jwtVerifies(h.token) THEN [status |-> 401, error |-> "invalid token", user |-> NoUser]
    ELSE [status |-> 0, error |-> "", user |-> h.token.payload]

\* verifyAuthHeader then requireRole(role): the response that ends the request, or
\* status 0 and req.user when next() reaches the handler
AuthCheck(h, role) ==
    IF h.parts = 0 THEN [status |-> 401, error |-> "missing authorization", user |-> NoUser]
    ELSE IF h.parts # 2 THEN [status |-> 401, error |-> "invalid authorization", user |-> NoUser]
    ELSE IF ~jwtVerifies(h.token) THEN [status |-> 401, error |-> "invalid token", user |-> NoUser]
    ELSE IF h.token.payload.role # role
        THEN [status |-> 403, error |-> "forbidden", user |-> NoUser]
    ELSE [status |-> 0, error |-> "", user |-> h.token.payload]

(****************************** store helpers *******************************)
\* SELECT ... WHERE email = ?  on a table with UNIQUE email: the row ids found
IdsByEmail(table, body) ==
    {i \in DOMAIN table : Has(body, "email") /\ table[i].email = body.email}

\* a response with the request it answers: the handler, the authorization header,
\* the body (and the :id), the status code, the error text or the JSON data
Response(op, auth, req, status, error, data) ==
    [op |-> op, auth |-> auth, req |-> req, status |-> status, error |-> error,
     data |-> data]

(************************* POST /api/register *******************************)
RegisterBodies ==
    { [email |-> "u1@x", password |-> "pw1", name |-> "Uma"],
      [email |-> "u1@x", password |-> "pw2"],
      [email |-> "u2@x", password |-> "pw2"],
      [email |-> "u2@x", password |-> Num123],
      [email |-> "u2@x"],
      [password |-> "pw1"] }

UserToken(id, row) == signToken([id |-> id, email |-> row.email, role |-> "user"])

\* the handler up to its first store statement, SELECT id FROM users WHERE email = ?
RegisterCheck(s, body) ==
    /\ calls[s] = Idle
    /\ IF Missing(body, "email") \/ Missing(body, "password")
       THEN /\ res' = Response("register", NoAuth, body, 400, "email & password required", NoData)
            /\ UNCHANGED calls
       ELSE IF IdsByEmail(users, body) # {}
       THEN /\ res' = Response("register", NoAuth, body, 400, "user exists", NoData)
            /\ UNCHANGED calls
       ELSE /\ calls' = [calls EXCEPT ![s] = [op |-> "register", pc |-> "insert", body |-> body]]
            /\ UNCHANGED res
    /\ UNCHANGED <<users, admins, menu, notifications, orders, now, addresses>>

UserRow(body, hash, t) ==
    [email |-> body.email, password_hash |-> hash, name |-> OrElse(body, "name", ""),
     created_at |-> t]

\* bcrypt.hash, then INSERT INTO users: email is UNIQUE
RegisterInsert(s) ==
    /\ calls[s].op = "register" /\ calls[s].pc = "insert"
    /\ LET body == calls[s].body IN
       IF bcryptThrows(body.password)
       THEN /\ res' = Response("register", NoAuth, body, 500, IllegalArguments, NoData)
            /\ calls' = [calls EXCEPT ![s] = Idle]
            /\ UNCHANGED users
       ELSE IF IdsByEmail(users, body) # {}
       THEN /\ res' = Response("register", NoAuth, body, 500,
                               "SQLITE_CONSTRAINT: UNIQUE constraint failed: users.email", NoData)
            /\ calls' = [calls EXCEPT ![s] = Idle]
            /\ UNCHANGED users
       ELSE /\ users' = Append(users, UserRow(body, bcryptHash(body.password), now))
            /\ calls' = [calls EXCEPT ![s].pc = "fetch"]
            /\ UNCHANGED res
    /\ UNCHANGED <<admins, menu, notifications, orders, now, addresses>>

\* SELECT id,email,name FROM users WHERE email = ?, then signToken and the response
RegisterFetch(s) ==
    /\ calls[s].op = "register" /\ calls[s].pc = "fetch"
    /\ LET body == calls[s].body
           id == CHOOSE i \in IdsByEmail(users, body) : TRUE
       IN res' = Response("register", NoAuth, body, 200, "",
                          [user |-> [id |-> id, email |-> users[id].email, name |-> users[id].name],
                           token |-> UserToken(id, users[id])])
    /\ calls' = [calls EXCEPT ![s] = Idle]
    /\ UNCHANGED <<users, admins, menu, notifications, orders, now, addresses>>

(********************* POST /api/login, /api/admin/login ********************)
LoginBodies ==
    { [email |-> e, password |-> p] : e \in {"u1@x", "nobody@x"}, p \in {"pw1", "pw2", Num123} }
    \cup { [email |-> "u1@x"], [email |-> "nobody@x"], [password |-> "pw1"] }

AdminLoginBodies ==
    { [email |-> e, password |-> p] : e \in {"manager@mummatiffin.com", "nobody@x"},
                                     p \in {"manager123", "pw1", Num123} }
    \cup { [email |-> "manager@mummatiffin.com"], [email |-> "nobody@x"], [password |-> "pw1"] }

AdminToken(id, row) == signToken([id |-> id, email |-> row.email, role |-> "admin"])

LoginResponse(table, body) ==
    IF Missing(body, "email") \/ Missing(body, "password")
    THEN Response("login", NoAuth, body, 400, "email & password required", NoData)
    ELSE IF IdsByEmail(table, body) = {}
    THEN Response("login", NoAuth, body, 400, "invalid credentials", NoData)
    ELSE LET id == CHOOSE i \in IdsByEmail(table, body) : TRUE
             user == table[id]
         IN IF bcryptThrows(body.password)
            THEN Response("login", NoAuth, body, 500, IllegalArguments, NoData)
            ELSE IF ~bcryptCompare(body.password, user.password_hash)
            THEN Response("login", NoAuth, body, 400, "invalid credentials", NoData)
            ELSE Response("login", NoAuth, body, 200, "",
                          [user |-> [id |-> id, email |-> user.email, name |-> user.name],
                           token |-> UserToken(id, user)])

Login(body) ==
    /\ res' = LoginResponse(users, body)
    /\ UNCHANGED <<users, admins, menu, notifications, orders, now, calls, addresses>>

AdminLoginResponse(table, body) ==
    IF IdsByEmail(table, body) = {}
    THEN Response("adminLogin", NoAuth, body, 400, "invalid credentials", NoData)
    ELSE LET id == CHOOSE i \in IdsByEmail(table, body) : TRUE
             admin == table[id]
         IN IF ~Has(body, "password") \/ bcryptThrows(body.password)
            THEN Response("adminLogin", NoAuth, body, 500, IllegalArguments, NoData)
            ELSE IF ~bcryptCompare(body.password, admin.password_hash)
            THEN Response("adminLogin", NoAuth, body, 400, "invalid credentials", NoData)
            ELSE Response("adminLogin", NoAuth, body, 200, "",
                          [admin |-> [id |-> id, email |-> admin.email, name |-> admin.name,
                                     city |-> admin.city],
                           token |-> AdminToken(id, admin)])

AdminLogin(body) ==
    /\ res' = AdminLoginResponse(admins, body)
    /\ UNCHANGED <<users, admins, menu, notifications, orders, now, calls, addresses>>

(*************************** POST /api/admin/create *************************)
\* the tokens register and the two logins sign for the accounts that exist
ValidTokens ==
    {UserToken(i, users[i]) : i \in DOMAIN users}
    \cup {AdminToken(i, admins[i]) : i \in DOMAIN admins}

AuthHeaders ==
    {NoAuth, OneWord, Bearer(ForgedToken([id |-> 1, email |-> "admin@mummatiffin.com",
                                          role |-> "admin"]))}
    \cup {Bearer(t) : t \in ValidTokens}

AdminCreateBodies ==
    { [email |-> "pune@x", password |-> "pw1", name |-> "Pune Manager", city |-> "Pune"],
      [email |-> "pune@x", password |-> "pw2"],
      [email |-> "manager@mummatiffin.com", password |-> "pw1"],
      [email |-> "pune@x"] }

AdminRow(body, hash, t) ==
    [email |-> body.email, password_hash |-> hash, name |-> OrElse(body, "name", ""),
     city |-> OrElse(body, "city", "All"), created_at |-> t]

\* the middleware and the handler up to SELECT id FROM admins WHERE email = ?
AdminCreateCheck(s, h, body) ==
    /\ calls[s] = Idle
    /\ LET a == AuthCheck(h, "admin") IN
       IF a.status # 0
       THEN /\ res' = Response("adminCreate", h, body, a.status, a.error, NoData)
            /\ UNCHANGED calls
       ELSE IF Missing(body, "email") \/ Missing(body, "password")
       THEN /\ res' = Response("adminCreate", h, body, 400, "email & password required", NoData)
            /\ UNCHANGED calls
       ELSE IF IdsByEmail(admins, body) # {}
       THEN /\ res' = Response("adminCreate", h, body, 400, "admin exists", NoData)
            /\ UNCHANGED calls
       ELSE /\ calls' = [calls EXCEPT ![s] = [op |-> "adminCreate", pc |-> "insert",
                                              auth |-> h, body |-> body, user |-> a.user]]
            /\ UNCHANGED res
    /\ UNCHANGED <<users, admins, menu, notifications, orders, now, addresses>>

\* bcrypt.hash, then INSERT INTO admins: email is UNIQUE
AdminCreateInsert(s) ==
    /\ calls[s].op = "adminCreate" /\ calls[s].pc = "insert"
    /\ LET body == calls[s].body
           h == calls[s].auth
       IN
       IF bcryptThrows(body.password)
       THEN /\ res' = Response("adminCreate", h, body, 500, IllegalArguments, NoData)
            /\ UNCHANGED admins
       ELSE IF IdsByEmail(admins, body) # {}
       THEN /\ res' = Response("adminCreate", h, body, 500,
                               "SQLITE_CONSTRAINT: UNIQUE constraint failed: admins.email", NoData)
            /\ UNCHANGED admins
       ELSE /\ admins' = Append(admins, AdminRow(body, bcryptHash(body.password), now))
            /\ res' = Response("adminCreate", h, body, 200, "", [ok |-> TRUE])
    /\ calls' = [calls EXCEPT ![s] = Idle]
    /\ UNCHANGED <<users, menu, notifications, orders, now, addresses>>

(********************************* initDb ***********************************)
DefaultAdmins ==
    << [email |-> "admin@mummatiffin.com", password_hash |-> bcryptHash("admin123"),
        name |-> "Super Admin", city |-> "All", created_at |-> 0],
       [email |-> "manager@mummatiffin.com", password_hash |-> bcryptHash("manager123"),
        name |-> "City Manager", city |-> "Delhi", created_at |-> 0] >>

MenuRow(meal, name_en, price, city, active) ==
    [meal |-> meal, name_en |-> name_en, price |-> price, city |-> city, active |-> active]

\* the sample rows, by id; the columns the server never reads (name_hi, the two
\* descriptions, available_from, available_to) are left out of the rows
SampleMenu ==
    [id \in {"b1", "b2", "l1", "d1"} |->
        CASE id = "b1" -> MenuRow("breakfast", "Aloo Paratha + Curd", 60, "Delhi", 1)
          [] id = "b2" -> MenuRow("breakfast", "Poha + Tea", 45, "Pune", 1)
          [] id = "l1" -> MenuRow("lunch", "Dal + Roti + Sabzi", 85, "All", 1)
          [] id = "d1" -> MenuRow("dinner", "Khichdi + Papad", 70, "All", 1)]

NotificationRow(text, t, city) == [text |-> text, created_at |-> t, target_city |-> city]

WelcomeNotification ==
    NotificationRow(<<"Welcome to Mumma Tiffin">>, 0, "All")

\* the tables as initDb leaves a fresh mumma.db
InitDb ==
    /\ users = <<>>
    /\ orders = <<>>
    /\ admins = DefaultAdmins
    /\ menu = SampleMenu
    /\ notifications = <<WelcomeNotification>>
    /\ addresses = <<>>
    /\ now = 0
    /\ calls = [s \in Slots |-> Idle]
    /\ res = Response("none", NoAuth, NoData, 0, "", NoData)

(******************* the accounts: register, logins, admins *****************)
InitAuth == InitDb

NextAuth ==
    \/ \E s \in Slots, body \in RegisterBodies : RegisterCheck(s, body)
    \/ \E s \in Slots : RegisterInsert(s)
    \/ \E s \in Slots : RegisterFetch(s)
    \/ \E body \in LoginBodies : Login(body)
    \/ \E body \in AdminLoginBodies : AdminLogin(body)
    \/ \E s \in Slots, h \in AuthHeaders, body \in AdminCreateBodies : AdminCreateCheck(s, h, body)
    \/ \E s \in Slots : AdminCreateInsert(s)

SpecAuth == InitAuth /\ [][NextAuth]_vars

(* C4: two register calls with the same email never both create a user, and  *)
(* the one that finds the email taken answers 400 'user exists', not 500.    *)
C4_RegisterConflict ==
    /\ \A i, j \in DOMAIN users : users[i].email = users[j].email => i = j
    /\ ( /\ res.op = "register" /\ res.status # 200
         /\ ~Missing(res.req, "email") /\ ~Missing(res.req, "password")
         /\ TypeOf(res.req.password) = "string"
         /\ IdsByEmail(users, res.req) # {} )
       => (res.status = 400 /\ res.error = "user exists")

(* C5: a failed login, user or administrator, answers exactly what the same  *)
(* request gets when no account has that email.                              *)
C5_LoginHidesAccounts ==
    /\ (res.op = "login" /\ res.status # 200)
         => LET r == LoginResponse(<<>>, res.req)
            IN res.status = r.status /\ res.error = r.error
    /\ (res.op = "adminLogin" /\ res.status # 200)
         => LET r == AdminLoginResponse(<<>>, res.req)
            IN res.status = r.status /\ res.error = r.error

(***************************** the orders ***********************************)
\* JSON.stringify drops the keys whose value is undefined; JSON.parse gives the
\* object back, and throws on text that is not JSON
JSON_stringify(obj) == [json |-> obj]
Garbage == [garbage |-> "{not json"]
JSON_parses(text) == Has(text, "json")
JSON_parse(text) == text.json

\* the object literal { items, address, date, time, meal } of the destructured body
Snapshot(body) ==
    [k \in DOMAIN body \cap {"items", "address", "date", "time", "meal"} |-> body[k]]

Labels == {"pending", "preparing", "out for delivery", "delivered"}

\* total || 0
TotalOrZero(body) == IF Has(body, "total") THEN body.total ELSE 0

OrderRow(user, body, t) ==
    [user_id |-> user.id, total |-> TotalOrZero(body),
     info |-> JSON_stringify(Snapshot(body)), status |-> "pending", created_at |-> t]

NewOrderNotification_ToAll(lastID, body, t) ==
    NotificationRow(<<"New order ", lastID, " placed">>, t, "All")

\* `New order ${r.lastID} placed`, targeted address.city || 'All'
NewOrderNotification(lastID, body, t) ==
    NotificationRow(<<"New order ", lastID, " placed">>, t, OrElse(body.address, "city", "All"))

\* `Order ${id} status updated -> ${status}`, targeted 'All'
StatusNotification(id, status, t) ==
    NotificationRow(<<"Order ", id, " status updated -> ", status>>, t, "All")

\* the handlers stop taking requests once the tables hold the rows the bounds allow
\* (the rows written since initDb ran, at time 0, are the ones counted)
Notifying == {s \in Slots : calls[s].op \in {"createOrder", "updateStatus"}}
RoomForNotification ==
    Cardinality({i \in DOMAIN notifications : i > 1 /\ notifications[i].created_at >= 0})
        + Cardinality(Notifying) < MaxNotifs

\* POST /api/orders up to the INSERT INTO orders
CreateOrderInsert(s, h, body) ==
    /\ calls[s] = Idle
    /\ LET a == AuthCheck(h, "user") IN
       IF a.status # 0
       THEN /\ res' = Response("createOrder", h, body, a.status, a.error, NoData)
            /\ UNCHANGED <<orders, calls>>
       ELSE IF ~Has(body, "items") \/ ~Has(body, "address")
       THEN /\ res' = Response("createOrder", h, body, 400, "items & address required", NoData)
            /\ UNCHANGED <<orders, calls>>
       ELSE /\ Len(orders) < MaxOrders
            /\ RoomForNotification
            /\ orders' = Append(orders, OrderRow(a.user, body, now))
            /\ calls' = [calls EXCEPT ![s] = [op |-> "createOrder", pc |-> "notify", auth |-> h,
                                              body |-> body, user |-> a.user,
                                              lastID |-> Len(orders) + 1]]
            /\ UNCHANGED res
    /\ UNCHANGED <<users, admins, menu, notifications, now, addresses>>

\* the INSERT INTO notifications and the response
CreateOrderNotify(s) ==
    /\ calls[s].op = "createOrder" /\ calls[s].pc = "notify"
    /\ notifications' =
          Append(notifications, NewOrderNotification(calls[s].lastID, calls[s].body, now))
    /\ res' = Response("createOrder", calls[s].auth, calls[s].body, 200, "",
                       [ok |-> TRUE, orderId |-> calls[s].lastID])
    /\ calls' = [calls EXCEPT ![s] = Idle]
    /\ UNCHANGED <<users, admins, menu, orders, now, addresses>>

Rank(status) ==
    CASE status = "pending" -> 1 [] status = "preparing" -> 2
      [] status = "out for delivery" -> 3 [] OTHER -> 4

UpdatedOrders_Monotone(table, id, status) ==
    [i \in DOMAIN table |->
        IF i = id /\ Rank(status) > Rank(table[i].status)
        THEN [table[i] EXCEPT !.status = status] ELSE table[i]]

UpdatedOrders_Replace(table, id, status) ==
    [i \in DOMAIN table |->
        IF i = id THEN [table[i] EXCEPT !.status = status, !.total = 0] ELSE table[i]]

UpdatedOrders_FirstWins(table, id, status) ==
    [i \in DOMAIN table |->
        IF i = id /\ table[i].status = "pending"
        THEN [table[i] EXCEPT !.status = status] ELSE table[i]]

\* UPDATE orders SET status = ? WHERE id = ?
UpdatedOrders(table, id, status) ==
    [i \in DOMAIN table |-> IF i = id THEN [table[i] EXCEPT !.status = status] ELSE table[i]]

OrderIds == 1..MaxOrders

\* PUT /api/admin/orders/:id up to the UPDATE
UpdateStatusWrite(s, h, id, body) ==
    /\ calls[s] = Idle
    /\ LET a == AuthCheck(h, "admin") IN
       IF a.status # 0
       THEN /\ res' = Response("updateStatus", h, [id |-> id, body |-> body], a.status, a.error, NoData)
            /\ UNCHANGED <<orders, calls>>
       ELSE /\ RoomForNotification
            /\ orders' = UpdatedOrders(orders, id, body.status)
            /\ calls' = [calls EXCEPT ![s] = [op |-> "updateStatus", pc |-> "notify", auth |-> h,
                                              body |-> body, user |-> a.user, id |-> id]]
            /\ UNCHANGED res
    /\ UNCHANGED <<users, admins, menu, notifications, now, addresses>>

\* the INSERT INTO notifications and the response
UpdateStatusNotify(s) ==
    /\ calls[s].op = "updateStatus" /\ calls[s].pc = "notify"
    /\ notifications' =
          Append(notifications, StatusNotification(calls[s].id, calls[s].body.status, now))
    /\ res' = Response("updateStatus", calls[s].auth, [id |-> calls[s].id, body |-> calls[s].body],
                       200, "", [ok |-> TRUE])
    /\ calls' = [calls EXCEPT ![s] = Idle]
    /\ UNCHANGED <<users, admins, menu, orders, now, addresses>>

AdminSeesOrder_NoWildcard(admin, r) ==
    IF JSON_parses(r.info)
    THEN LET info == JSON_parse(r.info)
             city == IF Has(info, "address") /\ ~Missing(info.address, "city")
                     THEN info.address.city ELSE "All"
         IN admin.city = "All" \/ admin.city = city
    ELSE admin.city = "All"

AdminSeesOrder_FailOpen(admin, r) ==
    IF JSON_parses(r.info)
    THEN LET info == JSON_parse(r.info)
             city == IF Has(info, "address") /\ ~Missing(info.address, "city")
                     THEN info.address.city ELSE "All"
         IN admin.city = "All" \/ admin.city = city \/ city = "All"
    ELSE TRUE

\* the filter of GET /api/admin/orders on one row
AdminSeesOrder(admin, r) ==
    IF JSON_parses(r.info)
    THEN LET info == JSON_parse(r.info)
             city == IF Has(info, "address") /\ ~Missing(info.address, "city")
                     THEN info.address.city ELSE "All"
         IN admin.city = "All" \/ admin.city = city \/ city = "All"
    ELSE admin.city = "All"

\* ORDER BY created_at DESC: the ids in an order the sort may give (rows of one
\* created_at come in either order)
SortedByCreatedDesc(ids) ==
    {q \in [1..Cardinality(ids) -> ids] :
        /\ \A i, j \in DOMAIN q : i # j => q[i] # q[j]
        /\ \A i, j \in DOMAIN q : i < j => orders[q[i]].created_at >= orders[q[j]].created_at}

AdminOrderLine(id) ==
    [id |-> id, status |-> orders[id].status, info |-> orders[id].info,
     user_id |-> orders[id].user_id, total |-> orders[id].total,
     created_at |-> orders[id].created_at,
     user_email |-> IF orders[id].user_id \in DOMAIN users
                    THEN users[orders[id].user_id].email ELSE "null"]

\* GET /api/admin/orders
ListOrdersForAdmin(h) ==
    /\ LET a == AuthCheck(h, "admin") IN
       IF a.status # 0
       THEN res' = Response("listOrdersForAdmin", h, NoData, a.status, a.error, NoData)
       ELSE LET admin == admins[a.user.id]
                seen == {id \in DOMAIN orders : AdminSeesOrder(admin, orders[id])}
            IN \E q \in SortedByCreatedDesc(seen) :
                  res' = Response("listOrdersForAdmin", h, NoData, 200, "",
                                  [orders |-> [i \in DOMAIN q |-> AdminOrderLine(q[i])]])
    /\ UNCHANGED <<users, admins, menu, notifications, orders, now, calls, addresses>>

\* new Date() moves on
Tick ==
    /\ now < MaxTime
    /\ now' = now + 1
    /\ UNCHANGED <<users, admins, menu, notifications, orders, calls, res, addresses>>

\* two users have registered.  mumma.db outlives the process (CREATE TABLE IF NOT
\* EXISTS): the orders table starts empty or with a row of an earlier deployment
\* whose info column is not JSON, the case the handler's catch is written for
RegisteredUsers ==
    << UserRow([email |-> "u1@x", password |-> "pw1", name |-> "Uma"], bcryptHash("pw1"), 0),
       UserRow([email |-> "u2@x", password |-> "pw2"], bcryptHash("pw2"), 0) >>

LegacyOrder ==
    [user_id |-> 1, total |-> 60, info |-> Garbage, status |-> "pending", created_at |-> 0]

InitOrders ==
    /\ admins = DefaultAdmins
    /\ menu = SampleMenu
    /\ notifications = <<WelcomeNotification>>
    /\ addresses = <<>>
    /\ now = 0
    /\ calls = [s \in Slots |-> Idle]
    /\ res = Response("none", NoAuth, NoData, 0, "", NoData)
    /\ users = RegisteredUsers
    /\ orders = <<>>

\* the requests of the order handlers: who asks, and with what
UserHeader(i) == Bearer(UserToken(i, users[i]))
AdminHeader(i) == Bearer(AdminToken(i, admins[i]))

CreateRequests ==
    { <<UserHeader(1), [items |-> <<"l1">>, total |-> 85, address |-> [city |-> "Delhi"],
                        date |-> "2026-01-01", time |-> "12:30", meal |-> "lunch"]>>,
      <<UserHeader(2), [items |-> <<"b2">>, address |-> [city |-> "Pune", line |-> "N/A"]]>>,
      <<UserHeader(2), [items |-> <<"d1">>, total |-> 70, address |-> [line |-> "N/A"]]>>,
      <<UserHeader(1), [items |-> <<>>, address |-> [city |-> "Delhi"]]>>,
      <<UserHeader(1), [total |-> 85, address |-> [city |-> "Delhi"]]>>,
      <<UserHeader(2), [items |-> <<"l1">>, total |-> 85]>>,
      <<AdminHeader(1), [items |-> <<"l1">>, total |-> 85, address |-> [city |-> "Delhi"]]>>,
      <<NoAuth, [items |-> <<"l1">>, total |-> 85, address |-> [city |-> "Delhi"]]>> }

UpdateRequests ==
    { <<AdminHeader(1), 1, [status |-> l]>> : l \in Labels }
    \cup { <<AdminHeader(1), id, [status |-> "preparing"]>> : id \in OrderIds }
    \cup { <<AdminHeader(2), id, [status |-> "delivered"]>> : id \in OrderIds }
    \cup { <<UserHeader(1), 1, [status |-> "delivered"]>> }

\* one request at a time: each handler runs to its response before the next starts
OneAtATime == {1}

NextOrders ==
    \/ \E s \in OneAtATime, r \in CreateRequests : CreateOrderInsert(s, r[1], r[2])
    \/ \E s \in OneAtATime : CreateOrderNotify(s)
    \/ \E s \in OneAtATime, r \in UpdateRequests : UpdateStatusWrite(s, r[1], r[2], r[3])
    \/ \E s \in OneAtATime : UpdateStatusNotify(s)

SpecOrders == InitOrders /\ [][NextOrders]_vars

(************************ the administrators' listing ***********************)
\* as InitOrders, with a third administrator created for Pune, and the orders table
\* empty or holding the row of an earlier deployment
InitListing ==
    /\ admins = Append(DefaultAdmins,
                       AdminRow([email |-> "pune@x", password |-> "pw1",
                                 name |-> "Pune Manager", city |-> "Pune"], bcryptHash("pw1"), 0))
    /\ menu = SampleMenu
    /\ notifications = <<WelcomeNotification>>
    /\ addresses = <<>>
    /\ now = 0
    /\ calls = [s \in Slots |-> Idle]
    /\ res = Response("none", NoAuth, NoData, 0, "", NoData)
    /\ users = RegisteredUsers
    /\ orders \in {<<>>, <<LegacyOrder>>}

ListHeaders == {AdminHeader(i) : i \in DOMAIN admins} \cup {UserHeader(1), NoAuth}

NextListing ==
    \/ \E s \in OneAtATime, r \in CreateRequests : CreateOrderInsert(s, r[1], r[2])
    \/ \E s \in OneAtATime : CreateOrderNotify(s)
    \/ \E h \in ListHeaders : ListOrdersForAdmin(h)
    \/ Tick

SpecListing == InitListing /\ [][NextListing]_vars

(******************************* the menu ***********************************)
Columns ==
    {"id", "meal", "name_en", "name_hi", "price", "description_en", "description_hi",
     "city", "available_from", "available_to", "active"}

Without_Nothing(table, id) == table

\* the rows of a table keyed by id, without / with one row
Without(table, id) == [k \in DOMAIN table \ {id} |-> table[k]]
With(table, id, row) == [k \in DOMAIN table \cup {id} |-> IF k = id THEN row ELSE table[k]]

MenuBodies ==
    { [id |-> "x1", meal |-> "lunch", name_en |-> "Thali", price |-> 120, city |-> "Delhi",
       active |-> 1],
      [meal |-> "dinner", name_en |-> "Soup"] }

\* id || ('m' + Date.now())
NewMenuId(body, t) == IF Missing(body, "id") THEN "m" \o ToString(t) ELSE body.id

NewMenuRow(body) ==
    MenuRow(body.meal, body.name_en, IF Has(body, "price") THEN body.price ELSE 0,
            OrElse(body, "city", "All"),
            IF Has(body, "active") /\ body.active # 0 THEN 1 ELSE 0)

\* POST /api/admin/menu: INSERT INTO menu, id is the PRIMARY KEY
MenuCreate(h, body) ==
    /\ LET a == AuthCheck(h, "admin")
           iid == NewMenuId(body, now)
       IN IF a.status # 0
          THEN /\ res' = Response("menuCreate", h, body, a.status, a.error, NoData)
               /\ UNCHANGED menu
          ELSE IF iid \in DOMAIN menu
          THEN /\ res' = Response("menuCreate", h, body, 500,
                                  "SQLITE_CONSTRAINT: UNIQUE constraint failed: menu.id", NoData)
               /\ UNCHANGED menu
          ELSE /\ menu' = With(menu, iid, NewMenuRow(body))
               /\ res' = Response("menuCreate", h, body, 200, "", [ok |-> TRUE, id |-> iid])
    /\ UNCHANGED <<users, admins, notifications, orders, now, calls, addresses>>

MenuIds == {"b1", "x1", "zz"}

FieldSets ==
    { [active |-> 0],
      [id |-> "zz", price |-> 99],
      [id |-> "b2"],
      [bogus |-> "x"],
      [k \in {} |-> k] }

\* the row after SET k = ? for every key of the body (the id column is the key)
SetFields(row, fields) ==
    [c \in DOMAIN row |-> IF c \in DOMAIN fields THEN fields[c] ELSE row[c]]

\* PUT /api/admin/menu/:id: UPDATE menu SET <every key of the body> WHERE id = ?
MenuUpdate(h, id, fields) ==
    /\ LET a == AuthCheck(h, "admin")
           req == [id |-> id, body |-> fields]
           newId == IF Has(fields, "id") THEN fields.id ELSE id
       IN IF a.status # 0
          THEN /\ res' = Response("menuUpdate", h, req, a.status, a.error, NoData)
               /\ UNCHANGED menu
          ELSE IF DOMAIN fields = {}
          THEN /\ res' = Response("menuUpdate", h, req, 500, "SQLITE_ERROR: syntax error", NoData)
               /\ UNCHANGED menu
          ELSE IF ~(DOMAIN fields \subseteq Columns)
          THEN /\ res' = Response("menuUpdate", h, req, 500, "SQLITE_ERROR: no such column", NoData)
               /\ UNCHANGED menu
          ELSE IF id \notin DOMAIN menu
          THEN /\ res' = Response("menuUpdate", h, req, 200, "", [ok |-> TRUE])
               /\ UNCHANGED menu
          ELSE IF newId # id /\ newId \in DOMAIN menu
          THEN /\ res' = Response("menuUpdate", h, req, 500,
                                  "SQLITE_CONSTRAINT: UNIQUE constraint failed: menu.id", NoData)
               /\ UNCHANGED menu
          ELSE /\ menu' = With(Without(menu, id), newId, SetFields(menu[id], fields))
               /\ res' = Response("menuUpdate", h, req, 200, "", [ok |-> TRUE])
    /\ UNCHANGED <<users, admins, notifications, orders, now, calls, addresses>>

\* DELETE /api/admin/menu/:id
MenuDelete(h, id) ==
    /\ LET a == AuthCheck(h, "admin") IN
       IF a.status # 0
       THEN /\ res' = Response("menuDelete", h, [id |-> id], a.status, a.error, NoData)
            /\ UNCHANGED menu
       ELSE /\ menu' = Without(menu, id)
            /\ res' = Response("menuDelete", h, [id |-> id], 200, "", [ok |-> TRUE])
    /\ UNCHANGED <<users, admins, notifications, orders, now, calls, addresses>>

(*************************** GET /api/menu **********************************)
\* the strings the menu holds in its meal and id columns, as SQLite's BINARY
\* collation (memcmp) orders them
BinaryOrder ==
    <<"b1", "b2", "breakfast", "d1", "dinner", "l1", "lunch", "m0", "m1", "m2", "m3",
      "x1", "zz">>

TextRank(str) == CHOOSE i \in DOMAIN BinaryOrder : BinaryOrder[i] = str
TextLess(a, b) == TextRank(a) < TextRank(b)

\* ORDER BY meal, id  on two rows of menu, given by their ids
RowBefore(a, b) ==
    \/ TextLess(menu[a].meal, menu[b].meal)
    \/ menu[a].meal = menu[b].meal /\ TextLess(a, b)

\* a row as SELECT id,meal,...,active returns it
MenuLine(id) ==
    [id |-> id, meal |-> menu[id].meal, name_en |-> menu[id].name_en,
     price |-> menu[id].price, city |-> menu[id].city, active |-> menu[id].active]

\* SELECT ... FROM menu ORDER BY meal, id  over the rows ids
RECURSIVE OrderByMealId(_)
OrderByMealId(ids) ==
    IF ids = {} THEN <<>>
    ELSE LET first == CHOOSE a \in ids : \A b \in ids \ {a} : RowBefore(a, b)
         IN <<MenuLine(first)>> \o OrderByMealId(ids \ {first})

ShownInMenu_AnyState(r, query) ==
    Missing(query, "city") \/ r.city = query.city \/ r.city = "All"

\* r.active == 1 && (!city || r.city === city || r.city === 'All')
ShownInMenu(r, query) ==
    r.active = 1 /\ (Missing(query, "city") \/ r.city = query.city \/ r.city = "All")

\* req.query of GET /api/menu: no city, ?city= , or a city
MenuQueries ==
    { [k \in {} |-> k], [city |-> ""], [city |-> "Delhi"], [city |-> "Pune"] }

\* GET /api/menu
PublicList(query) ==
    /\ LET rows == OrderByMealId(DOMAIN menu)
           filtered == SelectSeq(rows, LAMBDA r : ShownInMenu(r, query))
       IN res' = Response("publicList", NoAuth, query, 200, "", [menu |-> filtered])
    /\ UNCHANGED <<users, admins, menu, notifications, orders, now, calls, addresses>>

MenuHeaders == {AdminHeader(2), NoAuth}

NextMenu ==
    \/ \E h \in MenuHeaders, body \in MenuBodies : MenuCreate(h, body)
    \/ \E h \in MenuHeaders, id \in MenuIds, fields \in FieldSets : MenuUpdate(h, id, fields)
    \/ \E h \in MenuHeaders, id \in MenuIds : MenuDelete(h, id)
    \/ \E query \in MenuQueries : PublicList(query)
    \/ Tick

SpecMenu == InitDb /\ [][NextMenu]_vars

(******************** listings, addresses, notifications ********************)
\* ORDER BY created_at DESC over the rows ids of a table: the sequences the sort may
\* give (rows of one created_at come in either order), built from the oldest row up
RECURSIVE ByCreatedDesc(_, _)
ByCreatedDesc(table, ids) ==
    IF ids = {} THEN {<<>>}
    ELSE LET oldest == {i \in ids : \A j \in ids : table[i].created_at <= table[j].created_at}
         IN UNION { {Append(q, m) : q \in ByCreatedDesc(table, ids \ {m})} : m \in oldest }

NewestFirst_NoLimit(table, ids, limit) == ByCreatedDesc(table, ids)

\* ... ORDER BY created_at DESC LIMIT limit
NewestFirst(table, ids, limit) ==
    {SubSeq(q, 1, IF Len(q) < limit THEN Len(q) ELSE limit) : q \in ByCreatedDesc(table, ids)}

\* GET /api/admin/list
AdminList(h) ==
    /\ LET a == AuthCheck(h, "admin") IN
       IF a.status # 0
       THEN res' = Response("adminList", h, NoData, a.status, a.error, NoData)
       ELSE res' = Response("adminList", h, NoData, 200, "",
                            [admins |-> [i \in DOMAIN admins |->
                                           [id |-> i, email |-> admins[i].email,
                                            name |-> admins[i].name, city |-> admins[i].city,
                                            created_at |-> admins[i].created_at]]])
    /\ UNCHANGED <<users, admins, menu, notifications, orders, addresses, now, calls>>

UserOrderLine(id) ==
    [id |-> id, total |-> orders[id].total, info |-> orders[id].info,
     status |-> orders[id].status, created_at |-> orders[id].created_at]

\* GET /api/orders
ListOrdersForUser(h) ==
    /\ LET a == AuthCheck(h, "user") IN
       IF a.status # 0
       THEN res' = Response("listOrdersForUser", h, NoData, a.status, a.error, NoData)
       ELSE LET own == {id \in DOMAIN orders : orders[id].user_id = a.user.id}
            IN \E q \in SortedByCreatedDesc(own) :
                  res' = Response("listOrdersForUser", h, NoData, 200, "",
                                  [orders |-> [i \in DOMAIN q |-> UserOrderLine(q[i])]])
    /\ UNCHANGED <<users, admins, menu, notifications, orders, addresses, now, calls>>

AddressRow(user, body, t) ==
    [user_id |-> user.id, name |-> OrElse(body, "name", ""), line |-> OrElse(body, "line", ""),
     landmark |-> OrElse(body, "landmark", ""), pin |-> OrElse(body, "pin", ""),
     city |-> OrElse(body, "city", ""), created_at |-> t]

\* POST /api/address
AddressPost(h, body) ==
    /\ LET a == AuthCheck(h, "user") IN
       IF a.status # 0
       THEN /\ res' = Response("addressPost", h, body, a.status, a.error, NoData)
            /\ UNCHANGED addresses
       ELSE /\ Len(addresses) < MaxAddresses
            /\ addresses' = Append(addresses, AddressRow(a.user, body, now))
            /\ res' = Response("addressPost", h, body, 200, "", [ok |-> TRUE])
    /\ UNCHANGED <<users, admins, menu, notifications, orders, now, calls>>

AddressLine(id) ==
    [id |-> id, name |-> addresses[id].name, line |-> addresses[id].line,
     landmark |-> addresses[id].landmark, pin |-> addresses[id].pin,
     city |-> addresses[id].city, created_at |-> addresses[id].created_at]

\* GET /api/address
AddressList(h) ==
    /\ LET a == AuthCheck(h, "user") IN
       IF a.status # 0
       THEN res' = Response("addressList", h, NoData, a.status, a.error, NoData)
       ELSE LET own == {id \in DOMAIN addresses : addresses[id].user_id = a.user.id}
            IN \E q \in NewestFirst(addresses, own, 10) :
                  res' = Response("addressList", h, NoData, 200, "",
                                  [addresses |-> [i \in DOMAIN q |-> AddressLine(q[i])]])
    /\ UNCHANGED <<users, admins, menu, notifications, orders, addresses, now, calls>>

NotificationLine(id) ==
    [id |-> id, text |-> notifications[id].text, created_at |-> notifications[id].created_at,
     target_city |-> notifications[id].target_city]

\* GET /api/notifications: no middleware, the authorization header is not read
RecentNotifications(h) ==
    /\ \E q \in NewestFirst(notifications, DOMAIN notifications, 50) :
          res' = Response("recent", h, NoData, 200, "",
                          [notifications |-> [i \in DOMAIN q |-> NotificationLine(q[i])]])
    /\ UNCHANGED <<users, admins, menu, notifications, orders, addresses, now, calls>>

\* POST /api/admin/notifications, the request of the dashboard's notifSend button:
\* the app registers no such route, and express answers 404 without running any
\* handler
PostNotification(h, body) ==
    /\ res' = Response("postNotification", h, body, 404,
                       "Cannot POST /api/admin/notifications", NoData)
    /\ UNCHANGED <<users, admins, menu, notifications, orders, addresses, now, calls>>

\* mumma.db after an earlier run of the server: one order, placed and then moved
\* between two statuses, has left 49 notifications (with the welcome row), one short
\* of the listing's LIMIT; their created_at lie before this process's time 0
LegacyNotifications ==
    [i \in 1..49 |->
        IF i = 1 THEN NotificationRow(<<"Welcome to Mumma Tiffin">>, 0 - 49, "All")
        ELSE IF i = 2 THEN NotificationRow(<<"New order ", 1, " placed">>, 0 - 48, "Delhi")
        ELSE StatusNotification(1, IF i % 2 = 1 THEN "preparing" ELSE "pending", i - 50)]

LegacyPlacedOrder ==
    [OrderRow([id |-> 1], [items |-> <<"l1">>, total |-> 85, address |-> [city |-> "Delhi"]],
              0 - 48)
       EXCEPT !.status = "preparing"]

InitNotif ==
    /\ users = RegisteredUsers
    /\ admins = DefaultAdmins
    /\ menu = SampleMenu
    /\ orders = <<LegacyPlacedOrder>>
    /\ notifications = LegacyNotifications
    /\ addresses = <<>>
    /\ now = 0
    /\ calls = [s \in Slots |-> Idle]
    /\ res = Response("none", NoAuth, NoData, 0, "", NoData)

NotifBody == [text |-> "Lunch is ready", target_city |-> "Delhi"]

NextNotif ==
    \/ \E s \in OneAtATime :
          CreateOrderInsert(s, UserHeader(2), [items |-> <<"b2">>, address |-> [city |-> "Pune"]])
    \/ \E s \in OneAtATime : CreateOrderNotify(s)
    \/ \E s \in OneAtATime :
          UpdateStatusWrite(s, AdminHeader(1), 1, [status |-> "delivered"])
    \/ \E s \in OneAtATime : UpdateStatusNotify(s)
    \/ RecentNotifications(NoAuth)
    \/ \E h \in {AdminHeader(1), UserHeader(1)} : PostNotification(h, NotifBody)
    \/ Tick

SpecNotif == InitNotif /\ [][NextNotif]_vars

(*********************** requests in flight together ************************)
GuardOrderBody == [items |-> <<"l1">>, total |-> 85, address |-> [city |-> "Delhi"]]
\* createOrder and updateStatus calls in any slot: a second request is taken up
\* while the first waits for the store
RaceLabels == {"preparing", "delivered"}

NextRace ==
    \/ \E s \in Slots : CreateOrderInsert(s, UserHeader(1), GuardOrderBody)
    \/ \E s \in Slots : CreateOrderNotify(s)
    \/ \E s \in Slots, id \in OrderIds, l \in RaceLabels :
          UpdateStatusWrite(s, AdminHeader(1), id, [status |-> l])
    \/ \E s \in Slots : UpdateStatusNotify(s)

SpecRace == InitOrders /\ [][NextRace]_vars

\* one order has been placed; updateStatus calls on it are in flight together
InitPlaced ==
    /\ users = RegisteredUsers
    /\ admins = DefaultAdmins
    /\ menu = SampleMenu
    /\ orders = <<OrderRow([id |-> 1], GuardOrderBody, 0)>>
    /\ notifications = <<WelcomeNotification, NewOrderNotification(1, GuardOrderBody, 0)>>
    /\ addresses = <<>>
    /\ now = 0
    /\ calls = [s \in Slots |-> Idle]
    /\ res = Response("none", NoAuth, NoData, 0, "", NoData)

NextUpdates ==
    \/ \E s \in Slots, l \in Labels : UpdateStatusWrite(s, AdminHeader(1), 1, [status |-> l])
    \/ \E s \in Slots : UpdateStatusNotify(s)

SpecUpdates == InitPlaced /\ [][NextUpdates]_vars

(************************* the protected routes *****************************)
\* one request to each route behind verifyAuthHeader and requireRole, under every
\* kind of authorization header
GuardHeaders ==
    {NoAuth, OneWord,
     Bearer(ForgedToken([id |-> 1, email |-> "admin@mummatiffin.com", role |-> "admin"])),
     UserHeader(1), AdminHeader(2)}

GuardAdminBody == [email |-> "pune@x", password |-> "pw1", name |-> "Pune Manager", city |-> "Pune"]
GuardMenuBody == [id |-> "x1", meal |-> "lunch", name_en |-> "Thali", price |-> 120, active |-> 1]
GuardAddressBody == [name |-> "Home", line |-> "12 MG Road", pin |-> "110001"]

NextGuard ==
    \/ \E s \in OneAtATime, h \in GuardHeaders : AdminCreateCheck(s, h, GuardAdminBody)
    \/ \E s \in OneAtATime : AdminCreateInsert(s)
    \/ \E h \in GuardHeaders : AdminList(h)
    \/ \E h \in GuardHeaders : MenuCreate(h, GuardMenuBody)
    \/ \E h \in GuardHeaders : MenuUpdate(h, "x1", [active |-> 0])
    \/ \E h \in GuardHeaders : MenuDelete(h, "x1")
    \/ \E s \in OneAtATime, h \in GuardHeaders : CreateOrderInsert(s, h, GuardOrderBody)
    \/ \E s \in OneAtATime : CreateOrderNotify(s)
    \/ \E h \in GuardHeaders : ListOrdersForUser(h)
    \/ \E h \in GuardHeaders : ListOrdersForAdmin(h)
    \/ \E s \in OneAtATime, h \in GuardHeaders :
          UpdateStatusWrite(s, h, 1, [status |-> "delivered"])
    \/ \E s \in OneAtATime : UpdateStatusNotify(s)
    \/ \E h \in GuardHeaders : AddressPost(h, GuardAddressBody)
    \/ \E h \in GuardHeaders : AddressList(h)

SpecGuard == InitOrders /\ [][NextGuard]_vars

(************************ the city rule of the spec *************************)
cityIsVisible(adminCity, resourceCity) ==
    adminCity = "All" \/ resourceCity = "All" \/ adminCity = resourceCity

\* the city of an order's embedded address, "All" when the address carries none
EmbeddedCity(order) ==
    LET snap == JSON_parse(order.info)
    IN IF "address" \in DOMAIN snap /\ "city" \in DOMAIN snap.address /\ snap.address.city # ""
       THEN snap.address.city ELSE "All"

\* the administrator a valid admin token names
AdminOf(user) == admins[user.id]

(* C1: an order's status changes only by an updateStatus call of an          *)
(* administrator whose city scope is "All", or equals the order's embedded   *)
(* city, or whose order's city is "All".                                     *)
C1_StatusChangeNeedsCityScope ==
    [][\A id \in DOMAIN orders :
          (JSON_parses(orders[id].info) /\ orders'[id].status # orders[id].status)
          => \E s \in Slots :
                /\ calls[s] = Idle
                /\ calls'[s].op = "updateStatus"
                /\ calls'[s].id = id
                /\ cityIsVisible(AdminOf(calls'[s].user).city, EmbeddedCity(orders[id]))]_vars

Incomplete(body) == ~Has(body, "items") \/ body.items = <<>> \/ ~Has(body, "address")

(* C6: createOrder by a user with no items, an empty items list or no        *)
(* address answers 400, and writes no order (so no notification follows).    *)
C6_EmptyOrderRejected ==
    /\ (res.op = "createOrder" /\ AuthCheck(res.auth, "user").status = 0 /\ Incomplete(res.req))
          => res.status = 400
    /\ \A s \in Slots : calls[s].op = "createOrder" => ~Incomplete(calls[s].body)

(* C7: createOrder's insert adds exactly one order, owned by the caller and  *)
(* pending; its second statement adds exactly one notification, targeted at  *)
(* address.city or "All" when the address has no city, and only then does    *)
(* the call answer 200 with the new order's id.                              *)
C7_CreateOrderEffects ==
    [][/\ \A s \in Slots :
          /\ (calls[s] = Idle /\ calls'[s].op = "createOrder")
             => /\ Len(orders') = Len(orders) + 1
                /\ \A i \in DOMAIN orders : orders'[i] = orders[i]
                /\ orders'[Len(orders')].user_id = calls'[s].auth.token.payload.id
                /\ orders'[Len(orders')].status = "pending"
                /\ calls'[s].lastID = Len(orders')
                /\ notifications' = notifications
          /\ (calls[s].op = "createOrder" /\ calls'[s] = Idle)
             => /\ orders' = orders
                /\ Len(notifications') = Len(notifications) + 1
                /\ \A i \in DOMAIN notifications : notifications'[i] = notifications[i]
                /\ LET n == notifications'[Len(notifications')]
                       address == calls[s].body.address
                   IN /\ n.target_city = IF "city" \in DOMAIN address /\ address.city # ""
                                         THEN address.city ELSE "All"
                      /\ n.text = <<"New order ", calls[s].lastID, " placed">>
                /\ res'.op = "createOrder" /\ res'.status = 200
                /\ res'.data.orderId = calls[s].lastID
       /\ (res'.op = "createOrder" /\ res'.status = 200 /\ res' # res)
             => \E t \in Slots : calls[t].op = "createOrder" /\ calls'[t] = Idle]_vars

C7_Witness ==
    /\ res.op = "createOrder" /\ res.status = 200
    /\ ~Has(res.req.address, "city")
    /\ res.auth = UserHeader(2)
    /\ orders[res.data.orderId].user_id = 2
    /\ notifications[Len(notifications)].target_city = "All"
    /\ \E i \in DOMAIN notifications : notifications[i].target_city = "Delhi"

(* C8: updateStatus by an administrator on an existing order sets the status *)
(* to the label given whatever the status was, then adds exactly one         *)
(* notification targeted "All" and answers 200.                              *)
C8_UpdateStatusAnyTransition ==
    [][/\ \A s \in Slots :
          /\ (calls[s] = Idle /\ calls'[s].op = "updateStatus" /\ calls'[s].id \in DOMAIN orders)
             => /\ orders'[calls'[s].id].status = calls'[s].body.status
                /\ DOMAIN orders' = DOMAIN orders
                /\ notifications' = notifications
          /\ (calls[s].op = "updateStatus" /\ calls'[s] = Idle)
             => /\ orders' = orders
                /\ Len(notifications') = Len(notifications) + 1
                /\ \A i \in DOMAIN notifications : notifications'[i] = notifications[i]
                /\ notifications'[Len(notifications')].target_city = "All"
                /\ res'.op = "updateStatus" /\ res'.status = 200
       /\ ( /\ res'.op = "updateStatus" /\ res' # res
            /\ AuthCheck(res'.auth, "admin").status = 0 )
             => res'.status = 200]_vars

StatusNoteAt(i, id, status) ==
    /\ i \in DOMAIN notifications
    /\ notifications[i].text = <<"Order ", id, " status updated -> ", status>>

C8_Witness ==
    /\ res.op = "updateStatus" /\ res.status = 200
    /\ res.req = [id |-> 1, body |-> [status |-> "pending"]]
    /\ 1 \in DOMAIN orders /\ orders[1].status = "pending"
    /\ StatusNoteAt(3, 1, "delivered") /\ StatusNoteAt(4, 1, "pending")

(* C9: every step keeps every order, with its id, owner, total, snapshot and *)
(* creation time; only its status may differ.                                *)
C9_OrdersKeepAllButStatus ==
    [][\A id \in DOMAIN orders :
          /\ id \in DOMAIN orders'
          /\ orders'[id].user_id = orders[id].user_id
          /\ orders'[id].total = orders[id].total
          /\ orders'[id].info = orders[id].info
          /\ orders'[id].created_at = orders[id].created_at]_vars

C9_Witness ==
    /\ Len(orders) = 2
    /\ orders[1].status = "pending" /\ orders[2].status = "preparing"
    /\ res.op = "updateStatus" /\ res.status = 200 /\ res.req.id = 2

Listed(response) == {response.data.orders[i].id : i \in DOMAIN response.data.orders}

\* the step is listOrdersForAdmin answering 200 to the administrator of res'.auth
AdminListingAnswered ==
    /\ res'.op = "listOrdersForAdmin"
    /\ res'.status = 200
    /\ ListOrdersForAdmin(res'.auth)

(* C2: listOrdersForAdmin returns each stored order once at most, and an     *)
(* order whose snapshot parses is returned exactly when the caller's city    *)
(* scope is "All", or the order's embedded city is "All" (also when the      *)
(* address has no city), or the two are equal.                               *)
C2_AdminListingByCity ==
    [][AdminListingAnswered
          => /\ Listed(res') \subseteq DOMAIN orders
             /\ Cardinality(Listed(res')) = Len(res'.data.orders)
             /\ \A id \in DOMAIN orders :
                   JSON_parses(orders[id].info)
                   => (id \in Listed(res')
                         <=> cityIsVisible(AdminOf(res'.auth.token.payload).city,
                                           EmbeddedCity(orders[id])))]_vars

C2_Witness ==
    /\ res.op = "listOrdersForAdmin" /\ res.status = 200 /\ res.auth = AdminHeader(2)
    /\ Len(orders) = 2
    /\ \E i, j \in DOMAIN orders :
          /\ JSON_parses(orders[i].info) /\ EmbeddedCity(orders[i]) = "Pune"
          /\ JSON_parses(orders[j].info) /\ ~Has(JSON_parse(orders[j].info).address, "city")
          /\ Listed(res) = {j}

(* C3 as claimed: an order whose snapshot cannot be parsed is in the listing *)
(* of every administrator.                                                   *)
C3_UnparsableListedForAll ==
    [][AdminListingAnswered
          => \A id \in DOMAIN orders :
                ~JSON_parses(orders[id].info) => id \in Listed(res')]_vars

(* C3 amended: an order whose snapshot cannot be parsed is in the listing of *)
(* an administrator exactly when that administrator's city scope is "All".   *)
C3_UnparsableListedForAllScopeOnly ==
    [][AdminListingAnswered
          => \A id \in DOMAIN orders :
                ~JSON_parses(orders[id].info)
                => (id \in Listed(res') <=> AdminOf(res'.auth.token.payload).city = "All")]_vars

C3_Witness ==
    /\ res.op = "listOrdersForAdmin" /\ res.status = 200 /\ res.auth = AdminHeader(3)
    /\ AdminOf(res.auth.token.payload).city = "Pune"
    /\ Len(orders) = 2
    /\ ~JSON_parses(orders[1].info)
    /\ JSON_parses(orders[2].info) /\ EmbeddedCity(orders[2]) = "Pune"
    /\ Listed(res) = {2}

(* C10: the update of a menu item leaves the item under its id and the set   *)
(* of menu ids as it was, whatever fields the body holds.                    *)
C10_MenuUpdateKeepsId ==
    [][\A h \in MenuHeaders, id \in MenuIds, fields \in FieldSets :
          MenuUpdate(h, id, fields) => DOMAIN menu' = DOMAIN menu]_vars

\* the step is publicList answering the query res'.req
PublicListAnswered ==
    /\ res'.op = "publicList"
    /\ PublicList(res'.req)

\* no city filter was given: the query has no city, or an empty one
NoCityFilter(query) == "city" \notin DOMAIN query \/ query.city = ""

(* C11: publicList returns, once each and as stored, exactly the items with  *)
(* active = 1 whose city is the filter's or "All" (every active item when no *)
(* filter is given), ordered by meal and then by id; an inactive item or an  *)
(* item of another city is not returned.                                     *)
C11_PublicListActiveByCity ==
    [][PublicListAnswered
          => LET out == res'.data.menu
                 query == res'.req
             IN /\ \A i, j \in DOMAIN out : i < j => out[i].id # out[j].id
                /\ {out[i].id : i \in DOMAIN out}
                     = {id \in DOMAIN menu :
                          /\ menu[id].active = 1
                          /\ (NoCityFilter(query) \/ menu[id].city \in {query.city, "All"})}
                /\ \A i \in DOMAIN out :
                      /\ out[i].id \in DOMAIN menu
                      /\ out[i].meal = menu[out[i].id].meal
                      /\ out[i].price = menu[out[i].id].price
                      /\ out[i].city = menu[out[i].id].city
                /\ \A i, j \in DOMAIN out :
                      i < j => \/ TextLess(out[i].meal, out[j].meal)
                               \/ /\ out[i].meal = out[j].meal
                                  /\ TextLess(out[i].id, out[j].id)]_vars

C11_Witness ==
    /\ res.op = "publicList" /\ res.req = [city |-> "Delhi"]
    /\ "b1" \in DOMAIN menu /\ menu["b1"].active = 0
    /\ "b2" \in DOMAIN menu /\ menu["b2"].city = "Pune"
    /\ "m0" \in DOMAIN menu /\ menu["m0"].active = 0
    /\ Len(res.data.menu) = 3
    /\ res.data.menu[1].id = "d1" /\ res.data.menu[2].id = "l1" /\ res.data.menu[3].id = "x1"

\* the role each protected operation requires
RequiredRole ==
    [op \in {"adminCreate", "adminList", "menuCreate", "menuUpdate", "menuDelete",
             "listOrdersForAdmin", "updateStatus",
             "createOrder", "listOrdersForUser", "addressPost", "addressList"} |->
        IF op \in {"createOrder", "listOrdersForUser", "addressPost", "addressList"}
        THEN "user" ELSE "admin"]

\* the header is missing, is not two words, or its token was not signed by the server
NotAuthenticated(h) == h.parts # 2 \/ h.token.sig # JWT_SECRET
Authorized(h, role) == ~NotAuthenticated(h) /\ h.token.payload.role = role

Tables == <<users, admins, menu, notifications, orders, addresses>>

(* C12: a protected operation called with a missing, malformed or invalid    *)
(* token answers 401, and with a valid token of another role 403; either way *)
(* it returns no data, starts no handler and leaves every table as it was.   *)
(* No handler is started, and no table changed, but for a caller whose token *)
(* is valid and of the required role.                                        *)
C12_ProtectedRoutesRefuse ==
    [][/\ (res' # res /\ res'.op \in DOMAIN RequiredRole)
          => LET h == res'.auth
                 role == RequiredRole[res'.op]
             IN /\ NotAuthenticated(h)
                   => /\ res'.status = 401 /\ res'.data = NoData
                      /\ Tables' = Tables /\ calls' = calls
                /\ (~NotAuthenticated(h) /\ h.token.payload.role # role)
                   => /\ res'.status = 403 /\ res'.data = NoData
                      /\ Tables' = Tables /\ calls' = calls
       /\ \A s \in Slots :
             (calls'[s] # calls[s] /\ calls'[s] # Idle)
             => Authorized(calls'[s].auth, RequiredRole[calls'[s].op])
       /\ Tables' # Tables
          => \/ \E s \in Slots : calls'[s] # calls[s]
             \/ /\ res'.op \in DOMAIN RequiredRole
                /\ Authorized(res'.auth, RequiredRole[res'.op])]_vars

C12_Witness ==
    /\ res.op = "addressPost" /\ res.status = 403 /\ res.auth = AdminHeader(2)
    /\ res.data = NoData
    /\ Len(addresses) = 1 /\ Len(orders) = 1 /\ orders[1].status = "delivered"
    /\ "x1" \in DOMAIN menu /\ Len(admins) = 3

(* C13: a create answered 200 with active = 1 stores the item, active, under *)
(* the id it returns; publicList returns every stored active item whose city *)
(* matches the filter (or any, with no filter) and nothing that is not       *)
(* stored; a delete by an administrator answers 200 whether or not the id    *)
(* exists, removes that id and changes no other row.                         *)
C13_MenuRoundTrip ==
    [][/\ (res'.op = "menuCreate" /\ res'.status = 200 /\ MenuCreate(res'.auth, res'.req))
          => LET id == res'.data.id
                 body == res'.req
             IN /\ id \notin DOMAIN menu /\ id \in DOMAIN menu'
                /\ \A k \in DOMAIN menu : k \in DOMAIN menu' /\ menu'[k] = menu[k]
                /\ ("active" \in DOMAIN body /\ body.active = 1) => menu'[id].active = 1
                /\ menu'[id].city = IF "city" \in DOMAIN body THEN body.city ELSE "All"
       /\ PublicListAnswered
          => LET listed == {res'.data.menu[i].id : i \in DOMAIN res'.data.menu}
             IN /\ listed \subseteq DOMAIN menu
                /\ \A id \in DOMAIN menu :
                      ( /\ menu[id].active = 1
                        /\ (NoCityFilter(res'.req) \/ menu[id].city = res'.req.city) )
                      => id \in listed
       /\ (res'.op = "menuDelete" /\ MenuDelete(res'.auth, res'.req.id))
          => /\ Authorized(res'.auth, "admin") => res'.status = 200
             /\ res'.status = 200
                => /\ DOMAIN menu' = DOMAIN menu \ {res'.req.id}
                   /\ \A k \in DOMAIN menu' : menu'[k] = menu[k]]_vars

C13_Witness ==
    /\ res.op = "publicList" /\ res.req = [city |-> "Delhi"]
    /\ "x1" \in DOMAIN menu /\ "b1" \notin DOMAIN menu
    /\ \E i \in DOMAIN res.data.menu : res.data.menu[i].id = "x1"
    /\ \A i \in DOMAIN res.data.menu : res.data.menu[i].id # "b1"

(* C14: the token of a successful administrator login carries the id, the    *)
(* email, role "admin" and the administrator's city scope, so the claims     *)
(* verification returns for it include city.                                 *)
C14_AdminTokenCarriesCity ==
    (res.op = "adminLogin" /\ res.status = 200)
    => LET claims == AuthCheck(Bearer(res.data.token), "admin").user
       IN /\ claims.id = res.data.admin.id
          /\ claims.email = res.data.admin.email
          /\ claims.role = "admin"
          /\ "city" \in DOMAIN claims
          /\ claims.city = res.data.admin.city

\* a stored notification carrying the text and the target city of the request
PostedAt(i, body) ==
    /\ notifications[i].text = <<body.text>>
    /\ notifications[i].target_city = body.target_city

(* C15: a post(text, targetCity) by an administrator succeeds and leaves a   *)
(* notification with that text and target city in the log that recent reads; *)
(* a post by any other caller stores nothing.                                *)
C15_AdminPostsNotification ==
    res.op = "postNotification"
    => IF Authorized(res.auth, "admin")
       THEN /\ res.status = 200
            /\ \E i \in DOMAIN notifications : PostedAt(i, res.req)
       ELSE /\ res.status # 200
            /\ \A i \in DOMAIN notifications : ~PostedAt(i, res.req)

\* the step sends a response of recent (one that repeats the response before it
\* leaves every variable as it was)
RecentAnswered ==
    /\ res'.op = "recent"
    /\ res' # res

(* C16: no step removes or alters a stored notification; recent answers any  *)
(* caller, with or without a token, with min(50, n) of the n stored          *)
(* notifications, each once and as stored, whatever their target city,       *)
(* newest first by creation time, none left out being newer than one         *)
(* returned.                                                                 *)
C16_RecentNewestFifty ==
    [][/\ \A i \in DOMAIN notifications :
             i \in DOMAIN notifications' /\ notifications'[i] = notifications[i]
       /\ RecentAnswered
          => LET out == res'.data.notifications
                 n == Len(notifications)
                 returned == {out[i].id : i \in DOMAIN out}
             IN /\ res'.status = 200
                /\ Len(out) = IF n < 50 THEN n ELSE 50
                /\ Cardinality(returned) = Len(out)
                /\ \A i \in DOMAIN out :
                      /\ out[i].id \in DOMAIN notifications
                      /\ out[i].text = notifications[out[i].id].text
                      /\ out[i].created_at = notifications[out[i].id].created_at
                      /\ out[i].target_city = notifications[out[i].id].target_city
                /\ \A i \in DOMAIN out :
                      i < Len(out) => out[i].created_at >= out[i + 1].created_at
                /\ \A id \in DOMAIN notifications \ returned :
                      notifications[id].created_at <= out[Len(out)].created_at]_vars

C16_Witness ==
    /\ res.op = "recent" /\ res.status = 200 /\ res.auth = NoAuth
    /\ Len(notifications) = 52
    /\ notifications[51].target_city = "Pune" /\ notifications[52].target_city = "All"
    /\ notifications[49].created_at < notifications[51].created_at
    /\ Len(res.data.notifications) = 50
    /\ res.data.notifications[1].id = 52 /\ res.data.notifications[2].id = 51
    /\ res.data.notifications[50].id = 3

\* notification i announces a status of order id / the placing of order id
IsStatusNote(i, id) == Len(notifications[i].text) = 4 /\ notifications[i].text[2] = id
IsNewOrderNote(i, id) == Len(notifications[i].text) = 3 /\ notifications[i].text[2] = id

\* slot s holds an updateStatus call on order id that has written and not yet notified
UpdateInFlight(s, id) == calls[s].op = "updateStatus" /\ calls[s].id = id

(* C17: when updateStatus calls on one order are in flight together, each    *)
(* status write sets the order's status to its own label whatever the other  *)
(* call wrote, so the last write to reach the store decides the status; a    *)
(* status changes in no other way; every call then appends exactly one       *)
(* status notification of its own and answers 200, and nothing else appends  *)
(* a status notification.                                                    *)
C17_ConcurrentUpdatesLastWriteWins ==
    [][/\ \A s \in Slots :
          /\ ( /\ calls[s] = Idle /\ calls'[s].op = "updateStatus"
               /\ calls'[s].id \in DOMAIN orders
               /\ \E t \in Slots \ {s} : UpdateInFlight(t, calls'[s].id) )
             => /\ orders'[calls'[s].id].status = calls'[s].body.status
                /\ \A id \in DOMAIN orders \ {calls'[s].id} : orders'[id] = orders[id]
                /\ notifications' = notifications
                /\ \A t \in Slots \ {s} : calls'[t] = calls[t]
          /\ (calls[s].op = "updateStatus" /\ calls'[s] = Idle)
             => /\ orders' = orders
                /\ notifications' =
                      Append(notifications,
                             [text |-> <<"Order ", calls[s].id, " status updated -> ",
                                         calls[s].body.status>>,
                              created_at |-> now, target_city |-> "All"])
                /\ res'.op = "updateStatus" /\ res'.status = 200
                /\ \A t \in Slots \ {s} : calls'[t] = calls[t]
       /\ \A id \in DOMAIN orders :
             orders'[id].status # orders[id].status
             => \E s \in Slots :
                   /\ calls[s] = Idle /\ calls'[s].op = "updateStatus" /\ calls'[s].id = id
                   /\ orders'[id].status = calls'[s].body.status
       /\ \A i \in DOMAIN notifications' \ DOMAIN notifications :
             Len(notifications'[i].text) = 4
             => \E s \in Slots : calls[s].op = "updateStatus" /\ calls'[s] = Idle]_vars

\* both calls are done: "delivered" was written last and notified first
C17_Witness ==
    /\ \A s \in Slots : calls[s] = Idle
    /\ Len(orders) = 1 /\ orders[1].status = "delivered"
    /\ Len(notifications) = 4
    /\ IsNewOrderNote(2, 1)
    /\ IsStatusNote(3, 1) /\ notifications[3].text[4] = "delivered"
    /\ IsStatusNote(4, 1) /\ notifications[4].text[4] = "preparing"

(* C18: when no updateStatus call is in flight, the last status notification *)
(* appended for an order names the status the order has.                     *)
C18_LastNoteNamesStoredStatus ==
    (\A s \in Slots : calls[s].op # "updateStatus")
    => \A id \in DOMAIN orders :
          \A i \in DOMAIN notifications :
             ( /\ IsStatusNote(i, id)
               /\ \A j \in DOMAIN notifications : (j > i => ~IsStatusNote(j, id)) )
             => notifications[i].text[4] = orders[id].status

(* C19: every stored notification that names an order id names an order in   *)
(* the orders table; an updateStatus on an id that matches no order appends  *)
(* no notification.                                                          *)
C19_NotesNameStoredOrders ==
    \A i \in DOMAIN notifications :
       Len(notifications[i].text) \in {3, 4} => notifications[i].text[2] \in DOMAIN orders

=============================================================================
